---- MODULE Spec2Model ----
(***************************************************************************)
(* The CAN-FD security gateway: defensive_gateway() of                     *)
(* src/src/can_fd_defense_fair_gateway.py (the improved gateway, per-ID    *)
(* policy and semantic checks) and of src/can_fd_defense_fair_gateway.py   *)
(* (the original gateway, one rate limit for every identifier).            *)
(*                                                                         *)
(* Time is counted in clock ticks, TicksPerSec ticks to the second, so     *)
(* that the 1.0 s window, the 1.0 s receive timeout and the 5 s watch      *)
(* period are whole numbers of ticks.                                      *)
(***************************************************************************)
EXTENDS Integers, Sequences, FiniteSets, TLC

\* ------------------------------------------------------------ constants
LEGIT_ID == 512
FLOOD_ID == 1
DEFAULT_MAX_RATE == 15
MAX_FRAMES_PER_ID_PER_SEC == 10

PER_ID_POLICY ==
    (LEGIT_ID :> [max_rate |-> 50, label |-> "LEGIT_ENGINE", trusted |-> TRUE])
    @@ (FLOOD_ID :> [max_rate |-> 10, label |-> "UNTRUSTED_FLOOD", trusted |-> FALSE])

\* Clock resolution: ticks per second.
TicksPerSec == 2
\* now - ts < 1.0
WindowLen == 1 * TicksPerSec
\* bus.recv(timeout=1.0)
RecvTimeout == 1 * TicksPerSec
\* t_end = time.time() + 5
WatchLen == 5 * TicksPerSec

\* ------------------------------------------------------------ bounds
\* Frames a flooding sender gets through to the gateway per window, beyond
\* the limit of its identifier.
FloodSlack == 2
\* Telemetry frames per window when nothing floods.
LightLoad == 2
\* Frames of sender_legit per window while sender_attacker_flood floods.
LegitLoad == 2
\* The window tracker on its own: number of calls and largest timestamp.
MaxCalls == 4
MaxTime == 4

MaxEntries == 2

MaxSent == 2

\* ------------------------------------------------------------ frames
\* An identifier that PER_ID_POLICY does not list (0x777).
UnlistedIds == {1911}
Ids == {LEGIT_ID, FLOOD_ID} \cup UnlistedIds

\* struct.pack raises struct.error for a number its format cannot hold.
StructError == "struct.error"

\* pack_engine_data(rpm, coolant_temp, fuel_level): struct.pack("<HBB", ...),
\* an unsigned 16-bit number, low byte first, and two unsigned bytes; any
\* argument outside its format raises.
pack_engine_data(rpm, coolant_temp, fuel_level) ==
    IF rpm \in 0..65535 /\ coolant_temp \in 0..255 /\ fuel_level \in 0..255
    THEN << rpm % 256, rpm \div 256, coolant_temp, fuel_level >>
    ELSE StructError

\* struct.unpack("<HBB", data[:4])
unpack_engine_data(data) ==
    [rpm |-> data[1] + 256 * data[2], temp |-> data[3], fuel |-> data[4]]

\* payload = b"\\xDE\\xAD\\xBE\\xEF" of sender_attacker_flood
FloodPayload == <<222, 173, 190, 239>>

\* Payloads the senders on the bus put into frames.
TelemetryPayloads ==
    { pack_engine_data(2500, 90, 70),        \* sender_legit
      pack_engine_data(9000, 90, 70),        \* rpm out of range
      pack_engine_data(8000, 150, 100),      \* all fields on their upper limit
      pack_engine_data(8001, 150, 100),
      pack_engine_data(8000, 151, 100),
      pack_engine_data(8000, 150, 101),
      pack_engine_data(0, 216, 0),           \* the byte of -40 in two's complement
      pack_engine_data(3500, 95, 75) \o <<0, 0, 0, 0>>,   \* "<HBBxxxx"
      FloodPayload,
      <<196, 9, 90>>,                        \* shorter than the schema
      << >> }
NoMsg == [id |-> -1, data |-> << >>]

\* ------------------------------------------------------------ state
VARIABLES
    gw,             \* which gateway runs: "improved" or "original"
    traffic,        \* what the senders on the bus send in this run
    history,        \* whether forwarded, delivered and evaluated are recorded in this run
    pc,             \* defensive_gateway: "loop", "eval", "finally", "done"
    clock,          \* time.time()
    t_end,          \* t_end
    msg,            \* msg (NoMsg: None)
    id_timestamps,  \* id_timestamps: msg_id -> list of timestamps
    out,            \* the decision lines printed for msg
    raised,         \* an exception is propagating out of the loop
    shutdowns,      \* number of bus.shutdown() calls
    solo,           \* per identifier, the window of the stream of that identifier alone
    arrivals,       \* window tracker on its own: every timestamp passed, per identifier
    call,           \* window tracker on its own: the last call and its result
    per_id_policy,  \* the module-level dict PER_ID_POLICY
    config,         \* the entries written in the dict display of PER_ID_POLICY
    forwarded,      \* per identifier, the timestamps of the frames forwarded in its window
    rx_ready,       \* rx_ready (threading.Event)
    rxq,            \* receive queue of the gateway's bus
    recv_since,     \* when the pending bus.recv(timeout=1.0) was called
    senders,        \* sender threads: position, time of the last step, frames sent
    delivered,      \* the frames put in the gateway's receive queue, in order
    evaluated       \* the frames evaluated by the gateway, in order

policyVars == << per_id_policy, config >>

threadVars == << rx_ready, rxq, recv_since, senders, delivered, evaluated >>

vars == << gw, traffic, history, pc, clock, t_end, msg, id_timestamps, out, raised,
           shutdowns, solo, arrivals, call, policyVars, forwarded, threadVars >>

\* ------------------------------------------------------------ pure parts
\* engine_payload_is_plausible without the upper limit of rpm.
engine_payload_is_plausible_NoRpmLimit(rpm, temp, fuel) ==
    IF ~(0 <= rpm) THEN FALSE
    ELSE IF ~(-40 <= temp /\ temp <= 150) THEN FALSE
    ELSE IF ~(0 <= fuel /\ fuel <= 100) THEN FALSE
    ELSE TRUE

\* engine_payload_is_plausible(rpm, temp, fuel)
engine_payload_is_plausible(rpm, temp, fuel) ==
    IF ~(0 <= rpm /\ rpm <= 8000) THEN FALSE
    ELSE IF ~(-40 <= temp /\ temp <= 150) THEN FALSE
    ELSE IF ~(0 <= fuel /\ fuel <= 100) THEN FALSE
    ELSE TRUE

\* A lookup that judges unlisted identifiers by the strictest listed entry.
PolicyLookup_NoDefault(msg_id) ==
    IF msg_id \in DOMAIN per_id_policy
    THEN per_id_policy[msg_id]
    ELSE per_id_policy[FLOOD_ID]

\* PER_ID_POLICY.get(msg_id, {default})
PolicyLookup(msg_id) ==
    IF msg_id \in DOMAIN per_id_policy
    THEN per_id_policy[msg_id]
    ELSE [max_rate |-> DEFAULT_MAX_RATE, label |-> "UNKNOWN_ID", trusted |-> FALSE]

\* A lookup that stores the default entry of an unlisted identifier in the
\* table (dict.setdefault).
TableAfterGet_SetDefault(table, msg_id) ==
    IF msg_id \in DOMAIN table THEN table
    ELSE [k \in DOMAIN table \cup {msg_id} |->
             IF k = msg_id
             THEN [max_rate |-> DEFAULT_MAX_RATE, label |-> "UNKNOWN_ID", trusted |-> FALSE]
             ELSE table[k]]

\* PER_ID_POLICY after PER_ID_POLICY.get(msg_id, {default}): dict.get stores
\* nothing, and the loop body only reads the entry it got.
TableAfterGet(table, msg_id) == table

\* The original gateway has one limit and no labels.
PolicyOriginal(msg_id) ==
    [max_rate |-> MAX_FRAMES_PER_ID_PER_SEC, label |-> "", trusted |-> FALSE]

\* One list of timestamps for all identifiers.
TsGet_Shared(d, msg_id) ==
    IF DOMAIN d = {} THEN << >> ELSE d[CHOOSE k \in DOMAIN d : TRUE]

\* id_timestamps.get(msg_id, [])
TsGet(d, msg_id) ==
    IF msg_id \in DOMAIN d THEN d[msg_id] ELSE << >>

\* id_timestamps[msg_id] = ts_list
TsPut(d, msg_id, ts_list) ==
    [k \in DOMAIN d \cup {msg_id} |-> IF k = msg_id THEN ts_list ELSE d[k]]

\* Purge with the comparison now - ts <= 1.0.
Purge_Inclusive(ts_list, now) ==
    SelectSeq(ts_list, LAMBDA ts : now - ts <= 1 * TicksPerSec)

\* Purge with a window of half a second.
Purge_HalfWindow(ts_list, now) ==
    SelectSeq(ts_list, LAMBDA ts : 2 * (now - ts) < 1 * TicksPerSec)

\* [ts for ts in ts_list if now - ts < 1.0]
Purge(ts_list, now) ==
    SelectSeq(ts_list, LAMBDA ts : now - ts < WindowLen)

\* The new timestamp put first.
SlideWindow_Prepend(ts_list, now) ==
    << now >> \o Purge(ts_list, now)

\* Append without the purge.
SlideWindow_NoPurge(ts_list, now) ==
    Append(ts_list, now)

\* purge, then ts_list.append(now)
SlideWindow(ts_list, now) ==
    Append(Purge(ts_list, now), now)

Line(outcome, checked) == [outcome |-> outcome, checked |-> checked]

\* Decide with the semantic check made before the rate check.
Decide_SemanticFirst(msg_id, data, rate, max_rate) ==
    IF msg_id = LEGIT_ID /\ Len(data) >= 4
       /\ ~engine_payload_is_plausible(data[1] + 256 * data[2], data[3], data[4])
    THEN << Line("BlockedSemanticCheck", TRUE) >>
    ELSE IF rate > max_rate
    THEN << Line("BlockedRateLimit", FALSE) >>
    ELSE << Line("Forwarded", msg_id = LEGIT_ID /\ Len(data) >= 4) >>

\* Decide with the rate check rate >= max_rate.
Decide_OffByOne(msg_id, data, rate, max_rate) ==
    IF rate >= max_rate
    THEN << Line("BlockedRateLimit", FALSE) >>
    ELSE IF msg_id = LEGIT_ID /\ Len(data) >= 4
    THEN IF ~engine_payload_is_plausible(data[1] + 256 * data[2], data[3], data[4])
         THEN << Line("BlockedSemanticCheck", TRUE) >>
         ELSE << Line("Forwarded", TRUE) >>
    ELSE << Line("Forwarded", FALSE) >>

\* Decide with the payload check applied to every identifier.
Decide_CheckAll(msg_id, data, rate, max_rate) ==
    IF rate > max_rate
    THEN << Line("BlockedRateLimit", FALSE) >>
    ELSE IF Len(data) >= 4
    THEN IF ~engine_payload_is_plausible(data[1] + 256 * data[2], data[3], data[4])
         THEN << Line("BlockedSemanticCheck", TRUE) >>
         ELSE << Line("Forwarded", TRUE) >>
    ELSE << Line("Forwarded", FALSE) >>

\* Decide without the continue after the semantic block.
Decide_FallThrough(msg_id, data, rate, max_rate) ==
    IF rate > max_rate
    THEN << Line("BlockedRateLimit", FALSE) >>
    ELSE IF msg_id = LEGIT_ID /\ Len(data) >= 4
    THEN IF ~engine_payload_is_plausible(data[1] + 256 * data[2], data[3], data[4])
         THEN << Line("BlockedSemanticCheck", TRUE), Line("Forwarded", TRUE) >>
         ELSE << Line("Forwarded", TRUE) >>
    ELSE << Line("Forwarded", FALSE) >>

\* Improved gateway, from the rate check to the end of the loop body: the
\* decision lines printed for the frame, each with whether
\* engine_payload_is_plausible was called before it.
Decide(msg_id, data, rate, max_rate) ==
    IF rate > max_rate
    THEN << Line("BlockedRateLimit", FALSE) >>
    ELSE IF msg_id = LEGIT_ID /\ Len(data) >= 4
    THEN LET f == unpack_engine_data(SubSeq(data, 1, 4)) IN
         IF ~engine_payload_is_plausible(f.rpm, f.temp, f.fuel)
         THEN << Line("BlockedSemanticCheck", TRUE) >>
         ELSE << Line("Forwarded", TRUE) >>
    ELSE IF msg_id = FLOOD_ID
    THEN << Line("Forwarded", FALSE) >>
    ELSE << Line("Forwarded", FALSE) >>

\* Original gateway, from the rate check to the end of the loop body.
DecideOriginal(msg_id, data, rate, max_rate) ==
    IF rate > max_rate
    THEN << Line("BlockedRateLimit", FALSE) >>
    ELSE IF msg_id = LEGIT_ID /\ Len(data) >= 4
    THEN << Line("Forwarded", FALSE) >>
    ELSE IF msg_id = FLOOD_ID
    THEN << Line("Forwarded", FALSE) >>
    ELSE << Line("Forwarded", FALSE) >>

\* ------------------------------------------------------------ senders
\* What reaches the gateway's receive queue in a run: which identifiers, how
\* many frames of each per window at most, and with which payloads.
\*   telemetry      engine telemetry of every kind on LEGIT_ID, a few per second
\*   flood          sender_attacker_flood alone
\*   legit_flood    a flood on LEGIT_ID, in back-to-back bursts
\*   unknown_flood  a flood on an identifier the policy table does not list
\*   attack_flood   main(): sender_legit and sender_attacker_flood together,
\*                  the flood in back-to-back bursts
\*   steady_flood, steady_legit, steady_unknown
\*                  a flood that keeps its pace on 0x001, on 0x200 (valid
\*                  payloads) or on an unlisted identifier
Traffics == {"telemetry", "flood", "legit_flood", "unknown_flood"}

\* The identifier a steady flood is sent on, -1 for the other kinds of traffic.
TrafficSteadyId(tr) ==
    CASE tr = "steady_flood" -> FLOOD_ID
      [] tr = "steady_legit" -> LEGIT_ID
      [] tr = "steady_unknown" -> CHOOSE id \in UnlistedIds : TRUE
      [] OTHER -> -1

\* A steady flood sends this many frames in every tick in which it sends:
\* enough to exceed the limit of its identifier within one window.
TrafficPace(tr, id) ==
    IF id # TrafficSteadyId(tr) THEN 0
    ELSE (IF id \in DOMAIN PER_ID_POLICY THEN PER_ID_POLICY[id].max_rate
          ELSE DEFAULT_MAX_RATE) \div TicksPerSec + 1

TrafficCap(tr, id) ==
    CASE tr \in {"steady_flood", "steady_legit", "steady_unknown"} ->
            IF id = TrafficSteadyId(tr)
            THEN TicksPerSec * TrafficPace(tr, id) ELSE 0
      [] tr = "telemetry" ->
            IF id = LEGIT_ID THEN LightLoad ELSE 0
      [] tr = "flood" ->
            IF id = FLOOD_ID THEN PER_ID_POLICY[FLOOD_ID].max_rate + FloodSlack ELSE 0
      [] tr = "legit_flood" ->
            IF id = LEGIT_ID THEN PER_ID_POLICY[LEGIT_ID].max_rate + FloodSlack ELSE 0
      [] tr = "unknown_flood" ->
            IF id \in UnlistedIds THEN DEFAULT_MAX_RATE + FloodSlack ELSE 0
      [] tr = "attack_flood" ->
            IF id = FLOOD_ID THEN PER_ID_POLICY[FLOOD_ID].max_rate + FloodSlack
            ELSE IF id = LEGIT_ID THEN LegitLoad ELSE 0

TrafficPayloads(tr, id) ==
    CASE tr = "steady_flood" -> {FloodPayload}
      [] tr \in {"steady_legit", "steady_unknown"} -> {pack_engine_data(2500, 90, 70)}
      [] tr = "telemetry" -> TelemetryPayloads
      [] tr = "flood" -> {FloodPayload}
      [] tr = "legit_flood" ->
            {pack_engine_data(2500, 90, 70), pack_engine_data(9000, 90, 70)}
      [] tr = "unknown_flood" ->
            {pack_engine_data(9000, 90, 70), << >>}
      [] tr = "attack_flood" ->
            IF id = LEGIT_ID THEN {pack_engine_data(2500, 90, 70)} ELSE {FloodPayload}

\* A burst: the frames of id within one window reach the gateway in the same tick.
TrafficBurst(tr, id) ==
    \/ tr = "legit_flood"
    \/ tr = "attack_flood" /\ id = FLOOD_ID

\* The senders may deliver a frame of id that the gateway stamps with time t.
MayArrive(tr, ts_list, id, t) ==
    /\ Len(Purge(ts_list, t)) < TrafficCap(tr, id)
    /\ TrafficBurst(tr, id) => \A k \in 1..Len(ts_list) : t - ts_list[k] < WindowLen => ts_list[k] = t
    /\ TrafficPace(tr, id) > 0 =>
          LET InTick(u) == Cardinality({k \in 1..Len(ts_list) : ts_list[k] = u})
          IN /\ InTick(t) < TrafficPace(tr, id)
             /\ (ts_list # << >> /\ ts_list[Len(ts_list)] # t) =>
                    InTick(ts_list[Len(ts_list)]) >= TrafficPace(tr, id)

\* ------------------------------------------------------------ gateway
\* defensive_gateway up to the loop: the bus is open, id_timestamps = {},
\* t_end = time.time() + 5.
InitGateway ==
    /\ pc = "loop"
    /\ clock = 0
    /\ t_end = 0 + WatchLen
    /\ msg = NoMsg
    /\ id_timestamps = << >>
    /\ out = << >>
    /\ raised = FALSE
    /\ shutdowns = 0
    /\ solo = [i \in Ids |-> << >>]
    /\ arrivals = [i \in Ids |-> << >>]
    /\ call = [id |-> -1, now |-> 0, rate |-> 0]
    /\ per_id_policy = PER_ID_POLICY
    /\ config = << >>
    /\ forwarded = [i \in Ids |-> << >>]
    /\ rx_ready = TRUE
    /\ rxq = << >>
    /\ recv_since = 0
    /\ senders = << >>
    /\ delivered = << >>
    /\ evaluated = << >>

Init ==
    /\ gw \in {"improved", "original"}
    /\ traffic \in Traffics
    /\ history = FALSE
    /\ InitGateway

\* while time.time() < t_end: msg = bus.recv(timeout=1.0), a frame arrives
\* d ticks into the wait.
Recv(id, data, d) ==
    /\ pc = "loop"
    /\ clock < t_end
    /\ MayArrive(traffic, TsGet(id_timestamps, id), id, clock + d)
    /\ clock' = clock + d
    /\ msg' = [id |-> id, data |-> data]
    /\ out' = << >>
    /\ pc' = "eval"
    /\ UNCHANGED << gw, traffic, history, t_end, id_timestamps, raised, shutdowns, solo,
                    arrivals, call,
                    policyVars, forwarded, threadVars >>

\* bus.recv(timeout=1.0) returns None; if not msg: continue
RecvTimesOut ==
    /\ pc = "loop"
    /\ clock < t_end
    /\ clock' = clock + RecvTimeout
    /\ msg' = NoMsg
    /\ out' = << >>
    /\ UNCHANGED << gw, traffic, history, pc, t_end, id_timestamps, raised, shutdowns,
                    solo, arrivals, call,
                    policyVars, forwarded, threadVars >>

\* bus.recv raises and no finally clause runs.
RecvRaises_NoFinally ==
    /\ pc = "loop"
    /\ clock < t_end
    /\ raised' = TRUE
    /\ pc' = "done"
    /\ UNCHANGED << gw, traffic, history, clock, t_end, msg, id_timestamps, out,
                    shutdowns, solo, arrivals, call,
                    policyVars, forwarded, threadVars >>

\* bus.recv raises: the try block is left through finally
RecvRaises ==
    /\ pc = "loop"
    /\ clock < t_end
    /\ raised' = TRUE
    /\ pc' = "finally"
    /\ UNCHANGED << gw, traffic, history, clock, t_end, msg, id_timestamps, out,
                    shutdowns, solo, arrivals, call,
                    policyVars, forwarded, threadVars >>

\* The loop body storing the timestamp of a frame only when it is forwarded.
Evaluate_AppendIfForwarded ==
    /\ pc = "eval"
    /\ LET now == clock
           msg_id == msg.id
           data == msg.data
           policy == IF gw = "improved" THEN PolicyLookup(msg_id)
                     ELSE PolicyOriginal(msg_id)
           ts_list == SlideWindow(TsGet(id_timestamps, msg_id), now)
           rate == Len(ts_list)
           lines == IF gw = "improved"
                    THEN Decide(msg_id, data, rate, policy.max_rate)
                    ELSE DecideOriginal(msg_id, data, rate, policy.max_rate)
       IN /\ id_timestamps' = TsPut(id_timestamps, msg_id,
                                   IF lines[1].outcome = "Forwarded" THEN ts_list
                                   ELSE Purge(TsGet(id_timestamps, msg_id), now))
          /\ out' = [k \in 1..Len(lines) |->
                        [id |-> msg_id, data |-> data, label |-> policy.label,
                         limit |-> policy.max_rate, trusted |-> policy.trusted,
                         observed_rate |-> rate, outcome |-> lines[k].outcome,
                         checked |-> lines[k].checked,
                         purged |-> Len(TsGet(id_timestamps, msg_id)) - (rate - 1)]]
          /\ solo' = [solo EXCEPT ![msg_id] = SlideWindow(@, now)]
          /\ forwarded' = IF ~history THEN forwarded
                          ELSE [forwarded EXCEPT ![msg_id] =
                 SelectSeq(@, LAMBDA t : now - t < 1 * TicksPerSec)
                 \o (IF \E k \in 1..Len(lines) : lines[k].outcome = "Forwarded"
                     THEN << now >> ELSE << >>)]
          /\ per_id_policy' = IF gw = "improved"
                              THEN TableAfterGet(per_id_policy, msg_id)
                              ELSE per_id_policy
          /\ evaluated' = IF history THEN Append(evaluated, msg)
                          ELSE evaluated
    /\ pc' = "loop"
    /\ UNCHANGED << gw, traffic, history, clock, t_end, msg, raised, shutdowns,
                    arrivals, call, config, rx_ready, rxq, recv_since, senders,
                    delivered >>

\* The loop body after a frame was received.
Evaluate ==
    /\ pc = "eval"
    /\ LET now == clock
           msg_id == msg.id
           data == msg.data
           policy == IF gw = "improved" THEN PolicyLookup(msg_id)
                     ELSE PolicyOriginal(msg_id)
           ts_list == SlideWindow(TsGet(id_timestamps, msg_id), now)
           rate == Len(ts_list)
           lines == IF gw = "improved"
                    THEN Decide(msg_id, data, rate, policy.max_rate)
                    ELSE DecideOriginal(msg_id, data, rate, policy.max_rate)
       IN /\ id_timestamps' = TsPut(id_timestamps, msg_id, ts_list)
          /\ out' = [k \in 1..Len(lines) |->
                        [id |-> msg_id, data |-> data, label |-> policy.label,
                         limit |-> policy.max_rate, trusted |-> policy.trusted,
                         observed_rate |-> rate, outcome |-> lines[k].outcome,
                         checked |-> lines[k].checked,
                         purged |-> Len(TsGet(id_timestamps, msg_id)) - (rate - 1)]]
          /\ solo' = [solo EXCEPT ![msg_id] = SlideWindow(@, now)]
          /\ forwarded' = IF ~history THEN forwarded
                          ELSE [forwarded EXCEPT ![msg_id] =
                 SelectSeq(@, LAMBDA t : now - t < 1 * TicksPerSec)
                 \o (IF \E k \in 1..Len(lines) : lines[k].outcome = "Forwarded"
                     THEN << now >> ELSE << >>)]
          /\ per_id_policy' = IF gw = "improved"
                              THEN TableAfterGet(per_id_policy, msg_id)
                              ELSE per_id_policy
          /\ evaluated' = IF history THEN Append(evaluated, msg)
                          ELSE evaluated
    /\ pc' = "loop"
    /\ UNCHANGED << gw, traffic, history, clock, t_end, msg, raised, shutdowns,
                    arrivals, call, config, rx_ready, rxq, recv_since, senders,
                    delivered >>

\* while time.time() < t_end is false
LoopExit ==
    /\ pc = "loop"
    /\ ~(clock < t_end)
    /\ pc' = "finally"
    /\ UNCHANGED << gw, traffic, history, clock, t_end, msg, id_timestamps, out, raised,
                    shutdowns, solo, arrivals, call,
                    policyVars, forwarded, threadVars >>

\* finally: bus.shutdown()
Finally ==
    /\ pc = "finally"
    /\ shutdowns' = shutdowns + 1
    /\ pc' = "done"
    /\ UNCHANGED << gw, traffic, history, clock, t_end, msg, id_timestamps, out, raised,
                    solo, arrivals, call,
                    policyVars, forwarded, threadVars >>

Next ==
    \/ \E id \in Ids, d \in 0..RecvTimeout :
          \E data \in TrafficPayloads(traffic, id) : Recv(id, data, d)
    \/ RecvTimesOut
    \/ RecvRaises
    \/ Evaluate
    \/ LoopExit
    \/ Finally

Spec == Init /\ [][Next]_vars

\* main(): the gateway with sender_legit and sender_attacker_flood.
InitAttack ==
    /\ gw \in {"improved", "original"}
    /\ traffic = "attack_flood"
    /\ history = FALSE
    /\ InitGateway

SpecAttack == InitAttack /\ [][Next]_vars

\* The gateway thread keeps being scheduled.
InitLive ==
    /\ gw \in {"improved", "original"}
    /\ traffic \in {"telemetry", "flood"}
    /\ history = FALSE
    /\ InitGateway

SpecLive == InitLive /\ [][Next]_vars /\ WF_vars(Next)

\* ------------------------------------------------------------ window tracker
\* The window maintenance of the loop body on its own, fed any timestamps:
\* ts_list = id_timestamps.get(msg_id, []); purge; append; store; rate = len.
RecordAndCount(msg_id, now) ==
    /\ Len(arrivals[LEGIT_ID]) + Len(arrivals[FLOOD_ID]) < MaxCalls
    /\ LET ts_list == SlideWindow(TsGet(id_timestamps, msg_id), now)
       IN /\ id_timestamps' = TsPut(id_timestamps, msg_id, ts_list)
          /\ call' = [id |-> msg_id, now |-> now, rate |-> Len(ts_list)]
    /\ arrivals' = [arrivals EXCEPT ![msg_id] = Append(@, now)]
    /\ UNCHANGED << gw, traffic, history, pc, clock, t_end, msg, out, raised, shutdowns, solo,
                    policyVars, forwarded, threadVars >>

InitWindow ==
    /\ gw = "improved"
    /\ traffic = "telemetry"
    /\ history = FALSE
    /\ InitGateway

NextWindow ==
    \E msg_id \in {LEGIT_ID, FLOOD_ID}, now \in 0..MaxTime : RecordAndCount(msg_id, now)

SpecWindow == InitWindow /\ [][NextWindow]_vars

\* ------------------------------------------------------------ forwarded frames
\* The gateway under a steady flood on one identifier, with the timestamps of
\* the forwarded frames recorded.
InitRate ==
    /\ gw \in {"improved", "original"}
    /\ traffic \in {"steady_flood", "steady_legit", "steady_unknown"}
    /\ history = TRUE
    /\ InitGateway

SpecRate == InitRate /\ [][Next]_vars

\* ------------------------------------------------------------ policy table
\* The entries a dict display of PER_ID_POLICY may list: key and value.
PolicyEntries ==
    [key : Ids,
     value : {[max_rate |-> 50, label |-> "LEGIT_ENGINE", trusted |-> TRUE],
              [max_rate |-> 10, label |-> "UNTRUSTED_FLOOD", trusted |-> FALSE],
              [max_rate |-> 15, label |-> "UNKNOWN_ID", trusted |-> FALSE]}]

\* All sequences over S of length 0..n.
SeqUpTo(S, n) == UNION {[1..k -> S] : k \in 0..n}

\* A dict display { key: value, ... }: the entries are evaluated left to right
\* and a key listed again replaces the value stored for it.
DictDisplay(entries) ==
    [k \in {entries[i].key : i \in 1..Len(entries)} |->
        LET last == CHOOSE i \in 1..Len(entries) :
                       /\ entries[i].key = k
                       /\ \A j \in (i + 1)..Len(entries) : entries[j].key # k
        IN entries[last].value]

\* The module before its import: some entries are written in the display.
InitPolicy ==
    /\ gw = "improved"
    /\ traffic = "telemetry"
    /\ history = FALSE
    /\ pc = "import"
    /\ clock = 0
    /\ t_end = 0
    /\ msg = NoMsg
    /\ id_timestamps = << >>
    /\ out = << >>
    /\ raised = FALSE
    /\ shutdowns = 0
    /\ solo = [i \in Ids |-> << >>]
    /\ arrivals = [i \in Ids |-> << >>]
    /\ call = [id |-> -1, now |-> 0, rate |-> 0]
    /\ per_id_policy = << >>
    /\ config \in SeqUpTo(PolicyEntries, MaxEntries)
    /\ forwarded = [i \in Ids |-> << >>]
    /\ rx_ready = FALSE
    /\ rxq = << >>
    /\ recv_since = 0
    /\ senders = << >>
    /\ delivered = << >>
    /\ evaluated = << >>

\* The import evaluates PER_ID_POLICY = { ... }; no statement of the module
\* raises for a key listed twice.
LoadPolicy ==
    /\ pc = "import"
    /\ per_id_policy' = DictDisplay(config)
    /\ pc' = "imported"
    /\ UNCHANGED << gw, traffic, history, clock, t_end, msg, id_timestamps, out,
                    raised, shutdowns, solo, arrivals, call, config, forwarded,
                    threadVars >>

SpecPolicy == InitPolicy /\ [][LoadPolicy]_vars

\* ------------------------------------------------------------ threads
\* main(): the gateway thread and the two sender threads on the virtual bus.
Senders == {"legit", "attacker"}

\* rx_ready.wait(timeout=2)
WaitTimeout == 2 * TicksPerSec

\* while time.time() - start < 3.0
SendLen == 3 * TicksPerSec

\* The gateway thread is followed when it sets rx_ready up to 2 s late, the
\* clock until it has finished then.
MaxClock == WaitTimeout + WatchLen + RecvTimeout

\* time.sleep(0.3) in sender_legit, time.sleep(0.02) in sender_attacker_flood,
\* in hundredths of a second.
SleepHundredths(s) == IF s = "legit" THEN 30 ELSE 2

\* The tick of its loop in which a sender sends its frame number n + 1.
SendDue(s, n) == (n * SleepHundredths(s) * TicksPerSec) \div 100

\* The frame a sender sends.
SenderFrame(s) ==
    IF s = "legit" THEN [id |-> LEGIT_ID, data |-> pack_engine_data(2500, 90, 70)]
    ELSE [id |-> FLOOD_ID, data |-> FloodPayload]

\* A receive that returns the newest frame of the queue.
QueueGet_Newest(q) ==
    [frame |-> q[Len(q)], rest |-> SubSeq(q, 1, Len(q) - 1)]

\* bus.recv on a non-empty receive queue: the oldest frame is returned.
QueueGet(q) ==
    [frame |-> Head(q), rest |-> Tail(q)]

\* main() has started the three threads; none has run yet.
InitThreads ==
    /\ gw \in {"improved", "original"}
    /\ traffic = "threads"
    /\ history = TRUE
    /\ pc = "start"
    /\ clock = 0
    /\ t_end = 0
    /\ msg = NoMsg
    /\ id_timestamps = << >>
    /\ out = << >>
    /\ raised = FALSE
    /\ shutdowns = 0
    /\ solo = [i \in Ids |-> << >>]
    /\ arrivals = [i \in Ids |-> << >>]
    /\ call = [id |-> -1, now |-> 0, rate |-> 0]
    /\ per_id_policy = PER_ID_POLICY
    /\ config = << >>
    /\ forwarded = [i \in Ids |-> << >>]
    /\ rx_ready = FALSE
    /\ rxq = << >>
    /\ recv_since = 0
    /\ senders = [s \in Senders |-> [pc |-> "start", since |-> 0, sent |-> 0]]
    /\ delivered = << >>
    /\ evaluated = << >>

\* A thread has a step to take that does not wait for anything.
Busy ==
    \/ pc \in {"loop", "eval", "finally"}
    \/ pc = "recv" /\ (rxq # << >> \/ clock - recv_since >= RecvTimeout)
    \/ \E s \in Senders :
          \/ senders[s].pc = "start"
          \/ senders[s].pc = "wait" /\ (rx_ready \/ clock - senders[s].since >= WaitTimeout)
          \/ senders[s].pc = "send" /\ ~(clock - senders[s].since < SendLen)
          \/ /\ senders[s].pc = "send"
             /\ senders[s].sent < MaxSent
             /\ clock - senders[s].since >= SendDue(s, senders[s].sent)

\* Time passes while the threads wait: in bus.recv, in rx_ready.wait, in
\* time.sleep, or for the gateway thread to open its bus and set rx_ready.
Tick ==
    /\ clock < MaxClock
    /\ ~Busy
    /\ pc \in {"start", "opened"} => clock < WaitTimeout
    /\ clock' = clock + 1
    /\ UNCHANGED << gw, traffic, history, pc, t_end, msg, id_timestamps, out,
                    raised, shutdowns, solo, arrivals, call, policyVars,
                    forwarded, threadVars >>

\* defensive_gateway: bus = make_bus()
GatewayOpensBus ==
    /\ pc = "start"
    /\ pc' = "opened"
    /\ UNCHANGED << gw, traffic, history, clock, t_end, msg, id_timestamps, out,
                    raised, shutdowns, solo, arrivals, call, policyVars,
                    forwarded, threadVars >>

\* defensive_gateway: rx_ready.set(); id_timestamps = {}; t_end = time.time() + 5
GatewaySetsReady ==
    /\ pc = "opened"
    /\ rx_ready' = TRUE
    /\ id_timestamps' = << >>
    /\ t_end' = clock + WatchLen
    /\ pc' = "loop"
    /\ UNCHANGED << gw, traffic, history, clock, msg, out, raised, shutdowns,
                    solo, arrivals, call, policyVars, forwarded, rxq,
                    recv_since, senders, delivered, evaluated >>

\* while time.time() < t_end: bus.recv(timeout=1.0) is called
LoopEnter ==
    /\ pc = "loop"
    /\ clock < t_end
    /\ recv_since' = clock
    /\ pc' = "recv"
    /\ UNCHANGED << gw, traffic, history, clock, t_end, msg, id_timestamps, out,
                    raised, shutdowns, solo, arrivals, call, policyVars,
                    forwarded, rx_ready, rxq, senders, delivered, evaluated >>

\* bus.recv returns a frame of the receive queue
RecvQueued ==
    /\ pc = "recv"
    /\ rxq # << >>
    /\ msg' = QueueGet(rxq).frame
    /\ rxq' = QueueGet(rxq).rest
    /\ out' = << >>
    /\ pc' = "eval"
    /\ UNCHANGED << gw, traffic, history, clock, t_end, id_timestamps, raised,
                    shutdowns, solo, arrivals, call, policyVars, forwarded,
                    rx_ready, recv_since, senders, delivered, evaluated >>

\* bus.recv returns None after 1 s without a frame; if not msg: continue
RecvNone ==
    /\ pc = "recv"
    /\ rxq = << >>
    /\ clock - recv_since >= RecvTimeout
    /\ msg' = NoMsg
    /\ out' = << >>
    /\ pc' = "loop"
    /\ UNCHANGED << gw, traffic, history, clock, t_end, id_timestamps, raised,
                    shutdowns, solo, arrivals, call, policyVars, forwarded,
                    threadVars >>

\* sender: bus = make_bus(), then rx_ready.wait(timeout=2) is called
SenderOpensBus(s) ==
    /\ senders[s].pc = "start"
    /\ senders' = [senders EXCEPT ![s] = [pc |-> "wait", since |-> clock, sent |-> 0]]
    /\ UNCHANGED << gw, traffic, history, pc, clock, t_end, msg, id_timestamps,
                    out, raised, shutdowns, solo, arrivals, call, policyVars,
                    forwarded, rx_ready, rxq, recv_since, delivered, evaluated >>

\* sender: rx_ready.wait(timeout=2) returns, the event set or the timeout
\* over; its result is not looked at; start = time.time()
SenderWaitReturns(s) ==
    /\ senders[s].pc = "wait"
    /\ rx_ready \/ clock - senders[s].since >= WaitTimeout
    /\ senders' = [senders EXCEPT ![s] = [pc |-> "send", since |-> clock, sent |-> 0]]
    /\ UNCHANGED << gw, traffic, history, pc, clock, t_end, msg, id_timestamps,
                    out, raised, shutdowns, solo, arrivals, call, policyVars,
                    forwarded, rx_ready, rxq, recv_since, delivered, evaluated >>

\* sender: bus.send(msg) within the 3 s of the loop, after the time.sleep that
\* follows the frame before; the virtual bus puts the frame in the receive
\* queue of the gateway's bus if that bus is open. The first MaxSent frames of
\* a sender are followed.
SenderSends(s) ==
    /\ senders[s].pc = "send"
    /\ clock - senders[s].since < SendLen
    /\ senders[s].sent < MaxSent
    /\ clock - senders[s].since >= SendDue(s, senders[s].sent)
    /\ senders' = [senders EXCEPT ![s].sent = @ + 1]
    /\ IF pc \notin {"start", "done"}
       THEN /\ rxq' = Append(rxq, SenderFrame(s))
            /\ delivered' = Append(delivered, SenderFrame(s))
       ELSE UNCHANGED << rxq, delivered >>
    /\ UNCHANGED << gw, traffic, history, pc, clock, t_end, msg, id_timestamps,
                    out, raised, shutdowns, solo, arrivals, call, policyVars,
                    forwarded, rx_ready, recv_since, evaluated >>

\* sender: the loop condition is false; bus.shutdown()
SenderStops(s) ==
    /\ senders[s].pc = "send"
    /\ ~(clock - senders[s].since < SendLen)
    /\ senders' = [senders EXCEPT ![s].pc = "done"]
    /\ UNCHANGED << gw, traffic, history, pc, clock, t_end, msg, id_timestamps,
                    out, raised, shutdowns, solo, arrivals, call, policyVars,
                    forwarded, rx_ready, rxq, recv_since, delivered, evaluated >>

NextThreads ==
    \/ Tick
    \/ GatewayOpensBus
    \/ GatewaySetsReady
    \/ LoopEnter
    \/ RecvQueued
    \/ RecvNone
    \/ Evaluate
    \/ LoopExit
    \/ Finally
    \/ \E s \in Senders : SenderOpensBus(s)
    \/ \E s \in Senders : SenderWaitReturns(s)
    \/ \E s \in Senders : SenderSends(s)
    \/ \E s \in Senders : SenderStops(s)

SpecThreads == InitThreads /\ [][NextThreads]_vars

\* ------------------------------------------------------------ claims
\* The frame in msg has been evaluated: out holds what the gateway printed for it.
Decided == pc # "eval" /\ msg # NoMsg

\* The window count of the frame in msg, this frame included.
Count == Len(TsGet(id_timestamps, msg.id))

AllOut(outcome) == out # << >> /\ \A k \in 1..Len(out) : out[k].outcome = outcome

SomeOut(outcome) == \E k \in 1..Len(out) : out[k].outcome = outcome

\* C1: in the improved gateway a frame whose window count exceeds the max_rate
\* of its policy is decided BlockedRateLimit whatever its payload, and
\* engine_payload_is_plausible is not called for it; a frame is blocked for the
\* semantic reason only when its count is within the limit.
C1_RateLimitPrecedence ==
    (gw = "improved" /\ Decided) =>
        /\ Count > PolicyLookup(msg.id).max_rate =>
              /\ AllOut("BlockedRateLimit")
              /\ \A k \in 1..Len(out) : ~out[k].checked
        /\ SomeOut("BlockedSemanticCheck") => Count <= PolicyLookup(msg.id).max_rate

\* A frame on 0x200 with rpm = 9000 is the 51st of its window and is blocked
\* for its rate.
C1_Witness ==
    /\ gw = "improved" /\ Decided
    /\ msg.id = LEGIT_ID /\ msg.data = <<40, 35, 90, 70>>
    /\ Count = 51
    /\ AllOut("BlockedRateLimit")

\* The arrival timestamps of an identifier that lie in (t - 1 s, t].
InWindow(id, t) ==
    {k \in 1..Len(arrivals[id]) :
        t - WindowLen < arrivals[id][k] /\ arrivals[id][k] <= t}

NonDecreasing(s) == \A i, j \in 1..Len(s) : i < j => s[i] <= s[j]

\* C2 as stated: for any sequence of arrival timestamps of one identifier, the
\* count for the frame arriving at t is the number of that identifier's arrival
\* timestamps in (t - 1 s, t].
C2_AnySequence ==
    call.id # -1 =>
        /\ call.rate = Len(id_timestamps[call.id])
        /\ call.rate = Cardinality(InWindow(call.id, call.now))

\* C2, amended: for any non-decreasing sequence of arrival timestamps of one
\* identifier, the count for the frame arriving at t is the number of that
\* identifier's arrival timestamps in (t - 1 s, t], the current one included.
C2_WindowCorrectness ==
    (call.id # -1 /\ NonDecreasing(arrivals[call.id])) =>
        /\ call.rate = Len(id_timestamps[call.id])
        /\ call.rate = Cardinality(InWindow(call.id, call.now))

\* Non-decreasing arrivals, one exactly 1 s old that is not counted and one
\* younger that is.
C2_Witness ==
    /\ call.id # -1
    /\ NonDecreasing(arrivals[call.id])
    /\ \E k \in 1..Len(arrivals[call.id]) : arrivals[call.id][k] = call.now - WindowLen
    /\ \E k \in 1..Len(arrivals[call.id]) : arrivals[call.id][k] = call.now - WindowLen + 1
    /\ call.rate = 2

\* C3: a frame passes the rate check exactly when its window count is at most
\* max_rate. For 0x001 in the improved gateway the frames counted 1..10 are
\* Forwarded and every frame counted above 10 is BlockedRateLimit; in the
\* original gateway this holds for every identifier.
C3_RateThreshold ==
    Decided =>
        /\ gw = "improved" =>
              (SomeOut("BlockedRateLimit") <=> Count > PolicyLookup(msg.id).max_rate)
        /\ (gw = "original" \/ msg.id = FLOOD_ID) =>
              /\ Count <= 10 => AllOut("Forwarded")
              /\ Count > 10 => AllOut("BlockedRateLimit")

\* The 12th frame of 0x001 within a second that began a tick earlier is
\* blocked by the improved gateway.
C3_Witness ==
    /\ gw = "improved" /\ Decided
    /\ msg.id = FLOOD_ID
    /\ Count = 12
    /\ id_timestamps[FLOOD_ID][1] < clock
    /\ AllOut("BlockedRateLimit")

\* C4: in the improved gateway a frame on 0x200 within its rate limit of 50
\* with at least 4 payload bytes is Forwarded if rpm (bytes 1-2, little
\* endian) is in [0, 8000], temperature (byte 3) in [-40, 150] and fuel
\* (byte 4) in [0, 100], and BlockedSemanticCheck otherwise; rpm=2500, temp=90,
\* fuel=70 is Forwarded and rpm=9000 is BlockedSemanticCheck.
C4_SemanticCheck ==
    (gw = "improved" /\ Decided /\ msg.id = LEGIT_ID /\ Count <= 50
        /\ Len(msg.data) >= 4) =>
        LET rpm == msg.data[1] + 256 * msg.data[2]
            temp == msg.data[3]
            fuel == msg.data[4]
            ok == /\ 0 <= rpm /\ rpm <= 8000
                  /\ -40 <= temp /\ temp <= 150
                  /\ 0 <= fuel /\ fuel <= 100
        IN /\ ok => AllOut("Forwarded")
           /\ ~ok => AllOut("BlockedSemanticCheck")
           /\ msg.data = <<196, 9, 90, 70>> => AllOut("Forwarded")
           /\ msg.data = <<40, 35, 90, 70>> => AllOut("BlockedSemanticCheck")

\* rpm = 9000 on 0x200, the only frame of its second, is blocked for the
\* semantic reason.
C4_Witness ==
    /\ gw = "improved" /\ Decided
    /\ msg.id = LEGIT_ID /\ msg.data = <<40, 35, 90, 70>>
    /\ Count = 1
    /\ AllOut("BlockedSemanticCheck")

\* C5: the window of every identifier is the window its own frames alone
\* produce, so a frame is decided as in the stream with the frames of all
\* other identifiers removed; the valid 0x200 frames of sender_legit, within
\* their own limit, are Forwarded whatever sender_attacker_flood does.
C5_Isolation ==
    /\ \A i \in Ids : TsGet(id_timestamps, i) = solo[i]
    /\ Decided =>
          LET alone == IF gw = "improved"
                       THEN Decide(msg.id, msg.data, Len(solo[msg.id]),
                                   PolicyLookup(msg.id).max_rate)
                       ELSE DecideOriginal(msg.id, msg.data, Len(solo[msg.id]),
                                           MAX_FRAMES_PER_ID_PER_SEC)
          IN /\ Len(out) = Len(alone)
             /\ \A k \in 1..Len(out) : out[k].outcome = alone[k].outcome
    /\ (Decided /\ msg.id = LEGIT_ID /\ msg.data = <<196, 9, 90, 70>>
            /\ Len(solo[LEGIT_ID]) <= 10) => AllOut("Forwarded")

\* A frame of sender_legit is forwarded in the tick in which the flood on
\* 0x001 is over its limit.
C5_Witness ==
    /\ Decided /\ msg.id = LEGIT_ID /\ AllOut("Forwarded")
    /\ Len(TsGet(id_timestamps, FLOOD_ID)) > 10
    /\ id_timestamps[FLOOD_ID][Len(id_timestamps[FLOOD_ID])] = clock

\* C6: in the improved gateway a frame whose identifier is not in the policy
\* table is judged by {max_rate 15, "UNKNOWN_ID", untrusted}: Forwarded when
\* its window count is at most 15, never blocked for a semantic reason, and
\* its payload is not checked.
C6_DefaultFallback ==
    (gw = "improved" /\ Decided /\ msg.id \notin DOMAIN PER_ID_POLICY) =>
        /\ out # << >>
        /\ \A k \in 1..Len(out) :
              /\ out[k].limit = 15
              /\ out[k].label = "UNKNOWN_ID"
              /\ out[k].trusted = FALSE
              /\ out[k].checked = FALSE
              /\ out[k].outcome # "BlockedSemanticCheck"
        /\ Count <= 15 => AllOut("Forwarded")

\* The 15th frame of 0x777 in its window, with rpm = 9000, is forwarded.
C6_Witness ==
    /\ gw = "improved" /\ Decided
    /\ msg.id = 1911 /\ msg.data = <<40, 35, 90, 70>>
    /\ Count = 15
    /\ AllOut("Forwarded")

\* C7 as stated: a frame on 0x200 within its rate limit whose payload is
\* shorter than 4 bytes is decided BlockedSemanticCheck.
C7_UndersizedBlocked ==
    (gw = "improved" /\ Decided /\ msg.id = LEGIT_ID /\ Count <= 50
        /\ Len(msg.data) < 4) => AllOut("BlockedSemanticCheck")

\* C8: the improved gateway decides BlockedSemanticCheck only for a frame
\* whose policy entry is trusted and whose identifier the loop body decodes
\* (0x200); a frame with an untrusted entry that passes the rate check is
\* Forwarded.
C8_TrustGate ==
    (gw = "improved" /\ Decided) =>
        /\ \A k \in 1..Len(out) :
              out[k].outcome = "BlockedSemanticCheck" =>
                  out[k].trusted /\ msg.id = LEGIT_ID
        /\ \A k \in 1..Len(out) :
              (~out[k].trusted /\ Count <= out[k].limit) => out[k].outcome = "Forwarded"
        /\ out # << >>

\* A frame of 0x001 within its limit whose payload would fail the engine
\* check (rpm 44510) is forwarded.
C8_Witness ==
    /\ gw = "improved" /\ Decided
    /\ msg.id = FLOOD_ID /\ msg.data = <<222, 173, 190, 239>>
    /\ Count <= 10
    /\ AllOut("Forwarded")

\* C9: nothing is printed for a frame before it is evaluated; evaluating it
\* prints exactly one decision, one of Forwarded, BlockedRateLimit,
\* BlockedSemanticCheck, raises nothing and returns to the head of the loop.
C9_OneDecision ==
    /\ [](pc = "eval" => out = << >>)
    /\ [](Decided =>
            /\ Len(out) = 1
            /\ out[1].id = msg.id
            /\ out[1].outcome \in {"Forwarded", "BlockedRateLimit", "BlockedSemanticCheck"})
    /\ [][pc = "eval" => (pc' = "loop" /\ raised' = raised /\ Len(out') = 1)]_vars

\* The 11th frame of 0x001 was blocked and the improved gateway has received
\* the next frame.
C9_Witness ==
    /\ gw = "improved" /\ pc = "eval"
    /\ msg.id = FLOOD_ID
    /\ Len(TsGet(id_timestamps, FLOOD_ID)) = 11
    /\ id_timestamps[FLOOD_ID][11] = clock

\* C10: the gateway loop ends, and from then on the bus has been shut down
\* exactly once; it is never shut down twice.
C10_Termination ==
    /\ <>[](pc = "done" /\ shutdowns = 1)
    /\ [](shutdowns <= 1)

\* The loop was left by an exception after a frame had been decided, and the
\* bus has been shut down once.
C10_Witness ==
    /\ pc = "done" /\ raised /\ msg # NoMsg
    /\ shutdowns = 1

\* C11 as stated: a receive that fails does not end the gateway loop; the loop
\* is left only when the stop condition holds.
C11_FailedRecvContinues ==
    pc \in {"finally", "done"} => ~(clock < t_end)

\* C15: after record-and-count for identifier i at time now the stored list
\* of i is non-empty, ends with now, and holds only timestamps t with
\* now - t < 1 s; when the arrival times of i are non-decreasing the list is
\* ordered oldest first; the first frame of an identifier yields the list
\* <<now>> and count 1.
C15_WindowState ==
    call.id # -1 =>
        LET ts_list == TsGet(id_timestamps, call.id)
            seen == arrivals[call.id]
        IN /\ ts_list # << >>
           /\ ts_list[Len(ts_list)] = call.now
           /\ \A k \in 1..Len(ts_list) : call.now - ts_list[k] < 1 * TicksPerSec
           /\ NonDecreasing(seen) => NonDecreasing(ts_list)
           /\ Len(seen) = 1 => (ts_list = << call.now >> /\ call.rate = 1)

\* Three non-decreasing arrivals of one identifier; the call for the third
\* purged the first, exactly 1 s old, and left two in order.
C15_Witness ==
    /\ call.id # -1
    /\ Len(arrivals[call.id]) = 3
    /\ NonDecreasing(arrivals[call.id])
    /\ arrivals[call.id][1] = call.now - 1 * TicksPerSec
    /\ Len(id_timestamps[call.id]) = 2
    /\ id_timestamps[call.id][1] < id_timestamps[call.id][2]

\* The rate limit applied to the frame in msg.
Limit == IF gw = "improved" THEN PolicyLookup(msg.id).max_rate
         ELSE PolicyOriginal(msg.id).max_rate

\* The timestamps of the identifier of msg that are stored and less than
\* 1 s older than the clock.
Trailing ==
    LET ts_list == TsGet(id_timestamps, msg.id)
    IN Cardinality({k \in 1..Len(ts_list) : clock - ts_list[k] < 1 * TicksPerSec})

\* C16: the timestamp of every evaluated frame is stored whatever the decision,
\* so blocked frames count for the frames after them; a frame that finds
\* max_rate or more arrivals of its identifier in the trailing second, blocked
\* ones included, is decided BlockedRateLimit.
C16_BlockedFramesCount ==
    [][pc = "eval" =>
          /\ Len(TsGet(id_timestamps', msg.id)) = Trailing + 1
          /\ TsGet(id_timestamps', msg.id)[Trailing + 1] = clock
          /\ Trailing >= Limit => AllOut("BlockedRateLimit")']_vars

\* A valid frame of 0x200 is rate-blocked as 52nd of its window: the 51st,
\* itself blocked, was counted.
C16_Witness ==
    /\ gw = "improved" /\ Decided
    /\ msg = [id |-> LEGIT_ID, data |-> pack_engine_data(2500, 90, 70)]
    /\ Count = 52
    /\ AllOut("BlockedRateLimit")

\* C17: a frame whose identifier had no arrival in the last second (every
\* stored timestamp is at least 1 s old, or none is stored) is evaluated with
\* count 1 and is not rate-blocked, however many frames were blocked before.
C17_Recovery ==
    [][(pc = "eval" /\ Trailing = 0) =>
          /\ TsGet(id_timestamps', msg.id) = << clock >>
          /\ out' # << >>
          /\ \A k \in 1..Len(out') : /\ out'[k].observed_rate = 1
                                     /\ out'[k].outcome # "BlockedRateLimit"]_vars

\* A flood frame is forwarded with count 1 after the purge removed a whole
\* window of more than max_rate timestamps.
C17_Witness ==
    /\ Decided /\ msg.id = FLOOD_ID
    /\ Count = 1
    /\ AllOut("Forwarded")
    /\ out[1].purged > Limit

\* C12: in every reachable state the policy table equals the table the
\* gateway started with, so a lookup of an identifier returns the same policy
\* however often it is made.
C12_PolicyReadOnly ==
    /\ per_id_policy = PER_ID_POLICY
    /\ \A id \in Ids :
          PolicyLookup(id) =
             IF id \in DOMAIN PER_ID_POLICY THEN PER_ID_POLICY[id]
             ELSE [max_rate |-> DEFAULT_MAX_RATE, label |-> "UNKNOWN_ID", trusted |-> FALSE]

\* The table has been looked up sixteen times within a second for an unlisted
\* identifier, each time returning the default policy.
C12_Witness ==
    /\ gw = "improved" /\ Decided
    /\ msg.id \notin DOMAIN PER_ID_POLICY
    /\ Count = 16
    /\ out[1].label = "UNKNOWN_ID" /\ out[1].limit = DEFAULT_MAX_RATE
    /\ DOMAIN per_id_policy = {LEGIT_ID, FLOOD_ID}

\* C13 as stated: a table whose configuration lists an identifier twice is
\* not constructed, the construction fails (DuplicatePolicy).
C13_DuplicateRejected ==
    (pc = "imported" /\ \E i, j \in 1..Len(config) : i # j /\ config[i].key = config[j].key)
        => (raised /\ per_id_policy = << >>)

\* C14: for every identifier and every half-open interval of 1 s, the number
\* of frames of the identifier that were forwarded with an arrival time in the
\* interval is at most the max_rate of the identifier (improved gateway: 10 for
\* 0x001, 50 for 0x200, 15 for unlisted identifiers; original gateway: 10).
C14_ForwardedRateBound ==
    \A id \in Ids : \A s \in (0 - 1 * TicksPerSec)..clock :
        Cardinality({k \in 1..Len(forwarded[id]) :
                        s <= forwarded[id][k] /\ forwarded[id][k] < s + 1 * TicksPerSec})
            <= (IF gw = "original" THEN MAX_FRAMES_PER_ID_PER_SEC
                ELSE IF id = FLOOD_ID THEN 10
                ELSE IF id = LEGIT_ID THEN 50
                ELSE 15)

\* A flood of 0x001 over two ticks of one second: ten frames were forwarded,
\* the last of them in the second tick, and the frame after it was blocked.
C14_Witness ==
    /\ Decided /\ msg.id = FLOOD_ID
    /\ Len(forwarded[FLOOD_ID]) = 10
    /\ forwarded[FLOOD_ID][1] < forwarded[FLOOD_ID][10]
    /\ forwarded[FLOOD_ID][10] = clock
    /\ AllOut("BlockedRateLimit")

\* C18: only the gateway's evaluation step changes id_timestamps; while a
\* frame is being evaluated no other frame is received; and the frames are
\* evaluated one by one in the order in which the transport delivered them,
\* whatever the senders do meanwhile.
C18_SingleConsumer ==
    /\ [](delivered = evaluated \o (IF pc = "eval" THEN << msg >> ELSE << >>) \o rxq)
    /\ [][id_timestamps' # id_timestamps => (pc = "eval" /\ pc' = "loop")]_vars
    /\ [][pc = "eval" =>
            /\ msg' = msg
            /\ Len(rxq') >= Len(rxq)
            /\ evaluated' # evaluated => (evaluated' = Append(evaluated, msg) /\ pc' = "loop")]_vars

\* Frames of both senders were delivered; one is evaluated, another is being
\* evaluated while a third waits in the queue and a sender is still sending.
C18_Witness ==
    /\ pc = "eval"
    /\ Len(evaluated) >= 1 /\ evaluated[1].id # msg.id
    /\ rxq # << >>
    /\ id_timestamps # << >>
    /\ \E s \in Senders : senders[s].pc = "send"

\* C20 as stated: no sender has sent a frame while rx_ready is not set.
C20_NoSendBeforeReady ==
    \A s \in DOMAIN senders : senders[s].sent > 0 => rx_ready

\* C19 as stated: the validator accepts every temperature in [-40, 150], the
\* negative ones -40..-1 as the 8-bit field carries them (bytes 216..255).
C19_NegativeTemperatureAccepted ==
    (gw = "improved" /\ Decided /\ msg.id = LEGIT_ID /\ Count <= 50
        /\ Len(msg.data) >= 4
        /\ msg.data[1] + 256 * msg.data[2] <= 8000
        /\ msg.data[4] <= 100
        /\ msg.data[3] \in 216..255) => AllOut("Forwarded")

====
